---- MODULE Spec2Model ----
(***************************************************************************)
(* SNAKEIUM: the enhanced engine (src/src/snakeium/game_engine.py) and the *)
(* legacy single-file game (src/snakeium.py) as state machines.            *)
(* A position is a pair <<x, y>>; a body is a sequence of positions, head  *)
(* first.  One Tick is one iteration of the run loop's update call.        *)
(***************************************************************************)
EXTENDS Integers, Sequences, FiniteSets, Bags, TLC

VARIABLES
    legacy,     \* main.py: args.legacy, which of the two games runs
    frame,      \* updates of the gameplay so far
    now,        \* time.time(), in seconds
    state,      \* Game.state
    snake,      \* Game.snake (body = <<>> stands for None)
    food,       \* Game.food
    powerups,   \* Game.powerups
    score,      \* Game.score
    stats,      \* Game.game_stats
    cmds,       \* directions passed to Snake.change_direction since the last step
    lgame,      \* legacy Game: game_state, game_over, paused, score, food, powerups
    lsnake,     \* legacy Game.snake (body = <<>> stands for None)
    config,     \* Game.config: ConfigManager.high_scores and .statistics
    disk,       \* the file at ConfigManager.config_path
    submitted,  \* the bag of <<mode, score>> passed to update_high_score so far
    music,      \* Game.audio.music_manager: current_song set, is_playing
    menu,       \* Game.ui.menu_manager: current_menu, selected_index
    running,    \* Game.running
    current_mode, \* Game.current_mode
    particles   \* Game.particles, in list order: bursts of n particles with the
                \* same lifetime and max_lifetime (place, velocity and
                \* colour left out)

vars == <<legacy, frame, now, state, snake, food, powerups, score, stats, cmds,
          lgame, lsnake, config, disk, submitted, music, menu, running,
          current_mode, particles>>
evars == <<state, snake, food, powerups, score, stats, config, disk, submitted>>
lvars == <<lgame, lsnake>>
uvars == <<music, menu, running, current_mode>>

----------------------------------------------------------------------------
(* Bounds of the exploration *)

GridW == 3
GridH == 3
MaxFrames == 4
MaxFoods == 1
MaxNow == 16
MaxSpawns == 2
LongFrames == 606
SpawnFrames == 8
KeyWindow == 2
GrowFoods == 2
GrowFrames == 3
GrowSpawns == 1
MaxCmds == 2
LegacyFrames == 16
LegacyFoods == 1
LegacySpawnFrames == 5
ScoreFrames == 4
ScoreFoods == 2
ScoreSpawns == 2
MaxSpeed == 61
MaxLength == 12
SpeedFrames == 2
StateFrames == 5
StateFoods == 2
IdleFrames == 1
RestartFrames == 9
RestartSpawns == 2
MaxSubmits == 12
SubmitTop == 3
StoreSubmits == 3
StoreTop == 2
StoreGames == 2
ExpiryFrames == 3

(* Program constants *)

PowerUpLifetime == 15
MaxPowerUps == 2
SpeedCeiling == 30
LengthPerSpeed == 10
FramesPerSecond == 60
SpeedBoostTicks == 300
ScoreMultiplierTicks == 600
ScoreMultiplierValue == 3
RainbowTicks == 900
ShieldTicks == 600
SlowTimeTicks == 480
DoubleScoreTicks == 450
MegaFoodGrowth == 5
HighScoreLimit == 10
MaxParticles == 300
FoodParticles == 15
FoodParticleLife == 45
PowerUpParticles == 20
PowerUpParticleLife == 60
LegacyPowerUpLifetime == 10
LegacyLengthPerSpeed == 8
LegacySpeedCeiling == 20

(* config.gameplay.default_speed values explored, and the wall-clock steps *)
Speeds == {60}
ClockSteps == {1, 15}

\* the start menu's options explored: NIGHTMARE
LegacySpeeds == {12}
StoreLengths == {3, 5}

----------------------------------------------------------------------------
(* Direction, PowerUpType, GameState, Position *)

Directions == {"UP", "DOWN", "LEFT", "RIGHT"}

DirectionValue(d) ==
    CASE d = "UP" -> <<0, -1>>
      [] d = "DOWN" -> <<0, 1>>
      [] d = "LEFT" -> <<-1, 0>>
      [] d = "RIGHT" -> <<1, 0>>

PowerUpTypes == {"speed", "score", "rainbow", "mega", "shield", "slow_time",
                 "double_score", "teleport"}

FoodTypes == {"normal", "golden", "mega"}

Cells == (0 .. GridW - 1) \X (0 .. GridH - 1)

InBody(pos, body) == \E i \in 1 .. Len(body) : body[i] = pos

Min(a, b) == IF a < b THEN a ELSE b
Max(a, b) == IF a > b THEN a ELSE b

----------------------------------------------------------------------------
(* Food *)

FoodScore(type) ==
    CASE type = "normal" -> 10
      [] type = "golden" -> 50
      [] type = "mega" -> 100

\* a fallback of Food._generate_position that returns (0, 0) without a scan
ScanNoTest(snake_body) == <<0, 0>>

\* The fallback of Food._generate_position: the first cell of the row-major
\* scan (y outer, x inner) that is not in the body, else (0, 0).
FoodScan(snake_body) ==
    LET free == {c \in Cells : ~InBody(c, snake_body)}
    IN  IF free = {} THEN <<0, 0>>
        ELSE CHOOSE c \in free :
                 \A d \in free : c[2] < d[2] \/ (c[2] = d[2] /\ c[1] <= d[1])

\* The cells Food._generate_position can return: one of the random draws
\* misses the body, or all of them hit it (a body with at least one cell) and
\* the scan decides.
FoodPositions(snake_body) ==
    {c \in Cells : ~InBody(c, snake_body)} \cup
        (IF snake_body # <<>> THEN {FoodScan(snake_body)} ELSE {})

\* The cells PowerUp._generate_position can return: a random draw that misses
\* the body, else (0, 0) after 100 draws that all hit it.
PowerUpPositions(snake_body) ==
    {c \in Cells : ~InBody(c, snake_body)} \cup
        (IF snake_body # <<>> THEN {<<0, 0>>} ELSE {})

PowerUpIsExpired(p, t) == t - p.spawn_time > PowerUpLifetime

----------------------------------------------------------------------------
(* Enhanced Snake *)

NoEffects ==
    [speed_boost |-> 0, score_multiplier |-> 1, score_multiplier_timer |-> 0,
     rainbow_mode |-> 0, shield |-> 0, slow_time |-> 0, double_score |-> 0]

SnakeInit(initial_speed) ==
    [body |-> << <<GridW \div 2, GridH \div 2>> >>,
     direction |-> "RIGHT",
     next_direction |-> "RIGHT",
     speed |-> initial_speed,
     grow_pending |-> 0,
     move_timer |-> 0,
     move_interval |-> FramesPerSecond \div initial_speed,
     effects |-> NoEffects]

NoSnake == [SnakeInit(1) EXCEPT !.body = <<>>]

SnakeGetCurrentSpeed(s) ==
    LET base_speed == s.speed + Len(s.body) \div LengthPerSpeed
    IN  IF s.effects.speed_boost > 0
        THEN Min(base_speed * 2, SpeedCeiling)
        ELSE base_speed

\* max(1, int(60 // (current_speed * time_factor))), time_factor 0.5 or 1.0
SnakeMoveInterval(s) ==
    LET current_speed == SnakeGetCurrentSpeed(s)
    IN  IF s.effects.slow_time > 0
        THEN Max(1, (2 * FramesPerSecond) \div current_speed)
        ELSE Max(1, FramesPerSecond \div current_speed)

\* SnakeMove that drops the tail even while growth is pending
MoveAlwaysPops(s) ==
    LET d == s.next_direction
        delta == DirectionValue(d)
        new_head == <<(s.body[1][1] + delta[1]) % GridW,
                      (s.body[1][2] + delta[2]) % GridH>>
        grown == <<new_head>> \o s.body
    IN  [s EXCEPT !.direction = d,
                  !.body = SubSeq(grown, 1, Len(grown) - 1),
                  !.grow_pending = IF s.grow_pending > 0
                                   THEN s.grow_pending - 1 ELSE 0]

\* SnakeMove without the wrap at the edges
MoveNoWrap(s) ==
    LET d == s.next_direction
        delta == DirectionValue(d)
        new_head == <<s.body[1][1] + delta[1], s.body[1][2] + delta[2]>>
        grown == <<new_head>> \o s.body
    IN  IF s.grow_pending > 0
        THEN [s EXCEPT !.direction = d, !.body = grown,
                       !.grow_pending = s.grow_pending - 1]
        ELSE [s EXCEPT !.direction = d,
                       !.body = SubSeq(grown, 1, Len(grown) - 1)]

SnakeMove(s) ==
    LET d == s.next_direction
        delta == DirectionValue(d)
        new_head == <<(s.body[1][1] + delta[1]) % GridW,
                      (s.body[1][2] + delta[2]) % GridH>>
        grown == <<new_head>> \o s.body
    IN  IF s.grow_pending > 0
        THEN [s EXCEPT !.direction = d, !.body = grown,
                       !.grow_pending = s.grow_pending - 1]
        ELSE [s EXCEPT !.direction = d,
                       !.body = SubSeq(grown, 1, Len(grown) - 1)]

Decay(t) == IF t > 0 THEN t - 1 ELSE t

SnakeUpdateEffects(e) ==
    [e EXCEPT !.speed_boost = Decay(e.speed_boost),
              !.rainbow_mode = Decay(e.rainbow_mode),
              !.shield = Decay(e.shield),
              !.slow_time = Decay(e.slow_time),
              !.double_score = Decay(e.double_score),
              !.score_multiplier_timer = Decay(e.score_multiplier_timer),
              !.score_multiplier =
                  IF e.score_multiplier_timer > 0 THEN e.score_multiplier ELSE 1]

SnakeUpdate(s) ==
    LET s1 == [s EXCEPT !.effects = SnakeUpdateEffects(s.effects)]
        s2 == [s1 EXCEPT !.move_interval = SnakeMoveInterval(s1),
                         !.move_timer = s.move_timer + 1]
    IN  IF s2.move_timer >= s2.move_interval
        THEN SnakeMove([s2 EXCEPT !.move_timer = 0])
        ELSE s2

IsReverse(current, new) ==
    /\ DirectionValue(current)[1] + DirectionValue(new)[1] = 0
    /\ DirectionValue(current)[2] + DirectionValue(new)[2] = 0

\* SnakeChangeDirection that tests the new direction against the pending one
ChangeDirectionVsPending(s, new_direction) ==
    IF Len(s.body) > 1 /\ IsReverse(s.next_direction, new_direction)
    THEN s
    ELSE [s EXCEPT !.next_direction = new_direction]

\* SnakeChangeDirection without the test for a reversal
ChangeDirectionAlways(s, new_direction) ==
    [s EXCEPT !.next_direction = new_direction]

SnakeChangeDirection(s, new_direction) ==
    IF Len(s.body) > 1 /\ IsReverse(s.direction, new_direction)
    THEN s
    ELSE [s EXCEPT !.next_direction = new_direction]

\* SnakeCheckSelfCollision that leaves the last segment out of the test
CheckAllButTail(s) ==
    IF s.effects.shield > 0
    THEN FALSE
    ELSE InBody(s.body[1], SubSeq(s.body, 2, Len(s.body) - 1))

\* SnakeCheckSelfCollision that does not look at the shield
CheckIgnoresShield(s) == InBody(s.body[1], Tail(s.body))

\* SnakeCheckSelfCollision that is never fatal
CheckNever(s) == FALSE

SnakeCheckSelfCollision(s) ==
    IF s.effects.shield > 0
    THEN FALSE
    ELSE InBody(s.body[1], Tail(s.body))

FoodGrowth(type) ==
    CASE type = "mega" -> 3
      [] type = "golden" -> 2
      [] OTHER -> 1

\* SnakeEatFood that replaces the pending growth
EatFoodOverwrites(s, type) ==
    [s EXCEPT !.grow_pending = FoodGrowth(type)]

SnakeEatFood(s, type) ==
    [s EXCEPT !.grow_pending = s.grow_pending + FoodGrowth(type)]

\* SnakeEatPowerup whose SPEED_BOOST extends the running boost
EatPowerupExtends(s, type) ==
    CASE type = "speed" ->
            [s EXCEPT !.effects.speed_boost = s.effects.speed_boost + SpeedBoostTicks]
      [] type = "score" ->
            [s EXCEPT !.effects.score_multiplier = ScoreMultiplierValue,
                      !.effects.score_multiplier_timer = ScoreMultiplierTicks]
      [] OTHER -> s

SnakeEatPowerup(s, type) ==
    CASE type = "speed" -> [s EXCEPT !.effects.speed_boost = SpeedBoostTicks]
      [] type = "score" ->
            [s EXCEPT !.effects.score_multiplier = ScoreMultiplierValue,
                      !.effects.score_multiplier_timer = ScoreMultiplierTicks]
      [] type = "rainbow" -> [s EXCEPT !.effects.rainbow_mode = RainbowTicks]
      [] type = "mega" -> [s EXCEPT !.grow_pending = s.grow_pending + MegaFoodGrowth]
      [] type = "shield" -> [s EXCEPT !.effects.shield = ShieldTicks]
      [] type = "slow_time" -> [s EXCEPT !.effects.slow_time = SlowTimeTicks]
      [] type = "double_score" -> [s EXCEPT !.effects.double_score = DoubleScoreTicks]
      [] OTHER -> s

\* SnakeGetScoreMultiplier that does not look at double_score
ScoreMultiplierNoDouble(s) == s.effects.score_multiplier

SnakeGetScoreMultiplier(s) ==
    IF s.effects.double_score > 0
    THEN s.effects.score_multiplier * 2
    ELSE s.effects.score_multiplier

----------------------------------------------------------------------------
(* ConfigManager (src/src/snakeium/config_manager.py); the settings and     *)
(* statistics['total_playtime'], a float of wall-clock seconds, are left    *)
(* out.                                                                     *)

Modes == {"classic", "time_attack", "survival", "maze", "challenge"}

\* ConfigManager.__init__ before load_config
DefaultStatistics ==
    [total_games |-> 0, highest_score |-> 0, longest_snake |-> 0,
     power_ups_collected |-> 0]

DefaultConfig ==
    [high_scores |-> [m \in {} |-> <<>>], statistics |-> DefaultStatistics]

\* list.sort(reverse=True): insertion of one value into a sorted list
RECURSIVE InsertDescending(_, _)
InsertDescending(list, v) ==
    IF list = <<>> THEN <<v>>
    ELSE IF v >= list[1] THEN <<v>> \o list
         ELSE <<list[1]>> \o InsertDescending(Tail(list), v)

RECURSIVE SortDescending(_)
SortDescending(list) ==
    IF list = <<>> THEN <<>>
    ELSE InsertDescending(SortDescending(Tail(list)), list[1])

\* list[:n]
FirstN(list, n) == SubSeq(list, 1, Min(n, Len(list)))

\* ConfigManager.get_high_scores with the default limit
GetHighScores(c, mode) ==
    IF mode \in DOMAIN c.high_scores
    THEN FirstN(c.high_scores[mode], HighScoreLimit)
    ELSE <<>>

\* update_high_score that keeps every score
UpdateHighScoreKeepsAll(c, mode, sc) ==
    LET old == IF mode \in DOMAIN c.high_scores THEN c.high_scores[mode] ELSE <<>>
        new == SortDescending(Append(old, sc))
    IN  [c EXCEPT
           !.high_scores = [m \in DOMAIN c.high_scores \cup {mode} |->
                               IF m = mode THEN new ELSE c.high_scores[m]],
           !.statistics.highest_score = Max(c.statistics.highest_score, sc)]

\* ConfigManager.update_high_score
UpdateHighScore(c, mode, sc) ==
    LET old == IF mode \in DOMAIN c.high_scores THEN c.high_scores[mode] ELSE <<>>
        new == FirstN(SortDescending(Append(old, sc)), HighScoreLimit)
    IN  [c EXCEPT
           !.high_scores = [m \in DOMAIN c.high_scores \cup {mode} |->
                               IF m = mode THEN new ELSE c.high_scores[m]],
           !.statistics.highest_score =
               IF sc > c.statistics.highest_score
               THEN sc
               ELSE c.statistics.highest_score]

\* ConfigManager.update_statistics(total_games=1, total_playtime=...,
\* longest_snake=..., power_ups_collected=...)
UpdateStatistics(c, longest_snake, power_ups_collected) ==
    [c EXCEPT
       !.statistics.total_games = c.statistics.total_games + 1,
       !.statistics.longest_snake = c.statistics.longest_snake + longest_snake,
       !.statistics.power_ups_collected =
           c.statistics.power_ups_collected + power_ups_collected]

\* a JSON array: the set of its <<place, value>> elements
JsonArray(list) == {<<i, list[i]>> : i \in 1 .. Len(list)}

\* json.dump of the two dictionaries: a JSON object is the set of its
\* <<key, value>> members
JsonDump(c) ==
    [high_scores |-> {<<m, JsonArray(c.high_scores[m])>> : m \in DOMAIN c.high_scores},
     statistics |-> {<<k, c.statistics[k]>> : k \in DOMAIN c.statistics}]

\* a reading of a JSON array from its last element to its first
ListOfArrayReversed(elements) ==
    [i \in 1 .. Cardinality(elements) |->
        (CHOOSE e \in elements : e[1] = Cardinality(elements) + 1 - i)[2]]

\* the list of a JSON array
ListOfArray(elements) ==
    [i \in 1 .. Cardinality(elements) |->
        (CHOOSE e \in elements : e[1] = i)[2]]

\* the dictionary of a JSON object
JsonObject(members) ==
    [k \in {mb[1] : mb \in members} |->
        (CHOOSE mb \in members : mb[1] = k)[2]]

\* the file: absent, or written in full, or cut short by a failed write
NoFile == [exists |-> FALSE, whole |-> FALSE, text |-> JsonDump(DefaultConfig)]

\* ConfigManager.save_config: the files it can leave behind and its result.
\* mkdir or open fails: the file is as before; the write fails after open:
\* the file is cut short; otherwise the file holds the dump.
SaveOutcomes(c, file) ==
    {[file |-> file, result |-> FALSE],
     [file |-> [exists |-> TRUE, whole |-> FALSE, text |-> JsonDump(DefaultConfig)],
      result |-> FALSE],
     [file |-> [exists |-> TRUE, whole |-> TRUE, text |-> JsonDump(c)],
      result |-> TRUE]}

\* ConfigManager.__init__ followed by load_config: the defaults, replaced by
\* what a whole file holds (json.load raises on a file cut short)
LoadConfig(file) ==
    IF file.exists /\ file.whole
    THEN LET st == JsonObject(file.text.statistics)
             hs == JsonObject(file.text.high_scores)
         IN  [high_scores |-> [m \in DOMAIN hs |-> ListOfArray(hs[m])],
              statistics |-> [k \in DOMAIN DefaultStatistics |->
                                 IF k \in DOMAIN st THEN st[k]
                                 ELSE DefaultStatistics[k]]]
    ELSE DefaultConfig

----------------------------------------------------------------------------
(* MusicManager (src/src/snakeium/audio_manager.py) *)

\* after Game.run has called play_music with a music file found
MusicStarted == [current_song |-> TRUE, is_playing |-> TRUE]

MusicPause(m) == [m EXCEPT !.is_playing = FALSE]

MusicResume(m) == [m EXCEPT !.is_playing = TRUE]

\* MusicManager.play_next with a music file found
MusicPlayNext(m) == [current_song |-> TRUE, is_playing |-> TRUE]

----------------------------------------------------------------------------
(* MenuManager (src/src/snakeium/ui_manager.py) *)

MenuTo(target) == [action |-> "menu", value |-> target]
MenuStartItem(mode) == [action |-> "start_game", value |-> mode]
MenuOther(action) == [action |-> action, value |-> "none"]

\* MenuManager.menu_items
MenuItems ==
    [m \in {"main", "game_mode_select", "settings", "high_scores", "controls",
            "audio", "graphics", "about"} |->
        CASE m = "main" ->
               <<MenuStartItem("none"), MenuTo("game_mode_select"),
                 MenuTo("high_scores"), MenuTo("settings"), MenuTo("about"),
                 MenuOther("quit")>>
          [] m = "game_mode_select" ->
               <<MenuStartItem("classic"), MenuStartItem("time_attack"),
                 MenuStartItem("survival"), MenuStartItem("maze"),
                 MenuStartItem("challenge"), MenuTo("main")>>
          [] m = "settings" ->
               <<MenuTo("controls"), MenuTo("audio"), MenuTo("graphics"),
                 MenuOther("reset_config"), MenuTo("main")>>
          [] m = "high_scores" -> <<MenuTo("main")>>
          [] m = "controls" ->
               <<MenuOther("configure_controls"), MenuOther("reset_controls"),
                 MenuTo("settings")>>
          [] m = "audio" -> <<MenuTo("settings")>>
          [] m = "graphics" -> <<MenuTo("settings")>>
          [] m = "about" -> <<MenuTo("main")>>]

\* MenuManager.__init__, and navigate_to_menu(MenuState.MAIN)
MainMenu == [current_menu |-> "main", selected_index |-> 0]

NoAction == [kind |-> "none", mode |-> "none"]

\* the item under selected_index (indices from 0)
MenuSelected(m) == MenuItems[m.current_menu][m.selected_index + 1]

\* MenuManager.select_current_item: the menu it leaves and the action it
\* returns; reset_config is returned here as an action for the caller to
\* apply to the configuration
MenuSelectCurrentItem(m) ==
    LET item == MenuSelected(m)
    IN  CASE item.action = "menu" ->
               [menu |-> [current_menu |-> item.value, selected_index |-> 0],
                action |-> NoAction]
          [] item.action = "start_game" ->
               [menu |-> m,
                action |-> [kind |-> "start_game",
                            mode |-> IF item.value = "none" THEN "classic"
                                     ELSE item.value]]
          [] item.action = "quit" ->
               [menu |-> m, action |-> [kind |-> "quit", mode |-> "none"]]
          [] item.action = "reset_config" ->
               [menu |-> m, action |-> [kind |-> "reset_config", mode |-> "none"]]
          [] OTHER -> [menu |-> m, action |-> NoAction]

\* MenuManager.go_back
MenuGoBack(m) ==
    CASE m.current_menu = "main" ->
           [menu |-> m, action |-> [kind |-> "quit", mode |-> "none"]]
      [] m.current_menu \in {"controls", "audio", "graphics"} ->
           [menu |-> [current_menu |-> "settings", selected_index |-> 0],
            action |-> NoAction]
      [] OTHER -> [menu |-> MainMenu, action |-> NoAction]

\* MenuManager.handle_event for a KEYDOWN event
MenuHandleEvent(m, key) ==
    LET n == Len(MenuItems[m.current_menu])
    IN  CASE key = "UP" ->
               [menu |-> [m EXCEPT !.selected_index = (m.selected_index + n - 1) % n],
                action |-> NoAction]
          [] key = "DOWN" ->
               [menu |-> [m EXCEPT !.selected_index = (m.selected_index + 1) % n],
                action |-> NoAction]
          [] key \in {"RETURN", "SPACE"} -> MenuSelectCurrentItem(m)
          [] key = "ESCAPE" -> MenuGoBack(m)
          [] OTHER -> [menu |-> m, action |-> NoAction]

----------------------------------------------------------------------------
(* Enhanced Game *)

NoFood == [position |-> <<0, 0>>, type |-> "normal"]
NewStats == [food_eaten |-> 0, powerups_collected |-> 0, max_length |-> 1]

HeadOf(s) == s.body[1]

\* Game.eat_powerup for every power-up of ps on the head's cell, in list order
RECURSIVE EatPowerupsAt(_, _)
EatPowerupsAt(s, ps) ==
    IF ps = <<>> THEN s
    ELSE IF HeadOf(s) = ps[1].position
         THEN EatPowerupsAt(SnakeEatPowerup(s, ps[1].type), Tail(ps))
         ELSE EatPowerupsAt(s, Tail(ps))

\* the power-ups left after powerups.remove of those on the cell pos
PowerUpsOffCell(ps, pos) == SelectSeq(ps, LAMBDA p : p.position # pos)

\* a removal pass over the list itself, which skips the power-up that
\* follows a removed one
RECURSIVE PowerUpsAliveSkipping(_, _)
PowerUpsAliveSkipping(ps, t) ==
    IF ps = <<>> THEN <<>>
    ELSE IF PowerUpIsExpired(ps[1], t)
         THEN IF Len(ps) = 1 THEN <<>>
              ELSE <<ps[2]>> \o PowerUpsAliveSkipping(SubSeq(ps, 3, Len(ps)), t)
         ELSE <<ps[1]>> \o PowerUpsAliveSkipping(Tail(ps), t)

\* the power-ups left after powerups.remove of the expired ones
PowerUpsAlive(ps, t) == SelectSeq(ps, LAMBDA p : ~PowerUpIsExpired(p, t))

\* a start_game that leaves the particles and the power-ups of the last game
StartGameKeeps(sp) ==
    LET s == SnakeInit(sp)
    IN  /\ state' = "playing"
        /\ snake' = s
        /\ \E pos \in FoodPositions(s.body), ty \in FoodTypes :
               food' = [position |-> pos, type |-> ty]
        /\ score' = 0
        /\ stats' = NewStats
        /\ UNCHANGED <<powerups, particles, config, disk, submitted>>

\* Game.start_game
StartGameWith(sp) ==
    LET s == SnakeInit(sp)
    IN  /\ state' = "playing"
        /\ snake' = s
        /\ \E pos \in FoodPositions(s.body), ty \in FoodTypes :
               food' = [position |-> pos, type |-> ty]
        /\ powerups' = <<>>
        /\ score' = 0
        /\ stats' = NewStats
        /\ particles' = <<>>
        /\ UNCHANGED <<config, disk, submitted>>

\* Game.start_game with the configured default_speed
StartGameEffect == \E sp \in Speeds : StartGameWith(sp)

\* a game_over that only changes the state
GameOverForgets(s) ==
    /\ state' = "game_over"
    /\ snake' = s
    /\ UNCHANGED <<food, powerups, score, stats, config, disk, submitted>>

\* a game_over that keeps the high scores and the statistics it has
\* recorded only if save_config returns True
GameOverNeedsFile(s) ==
    LET c1 == UpdateStatistics(config, stats.max_length, stats.powerups_collected)
        c2 == UpdateHighScore(c1, current_mode, score)
    IN  /\ state' = "game_over"
        /\ snake' = s
        /\ submitted' = submitted (+) SetToBag({<<current_mode, score>>})
        /\ \E o \in SaveOutcomes(c2, disk) :
               /\ disk' = o.file
               /\ config' = IF o.result THEN c2 ELSE config
        /\ UNCHANGED <<food, powerups, score, stats>>

\* Game.game_over; the result of save_config is not looked at
GameOverEffect(s) ==
    LET c1 == UpdateStatistics(config, stats.max_length, stats.powerups_collected)
        c2 == UpdateHighScore(c1, current_mode, score)
    IN  /\ state' = "game_over"
        /\ snake' = s
        /\ config' = c2
        /\ submitted' = submitted (+) SetToBag({<<current_mode, score>>})
        /\ \E o \in SaveOutcomes(c2, disk) : disk' = o.file
        /\ UNCHANGED <<food, powerups, score, stats>>

\* Game.update_gameplay after a snake update without fatal collision;
\* spawn_types: the outcomes of random.choice(list(PowerUpType)) explored when
\* random.random() < 0.005 (none: the draw is never below 0.005)
ResolveTick(s1, spawn_types) ==
    LET ate == HeadOf(s1) = food.position
        s2 == IF ate THEN SnakeEatFood(s1, food.type) ELSE s1
        score2 == IF ate
                  THEN score + FoodScore(food.type) * SnakeGetScoreMultiplier(s2)
                  ELSE score
        s3 == EatPowerupsAt(s2, powerups)
        ps1 == PowerUpsOffCell(powerups, HeadOf(s2))
        collected == Len(powerups) - Len(ps1)
        ps2 == PowerUpsAlive(ps1, now)
        stats2 == [food_eaten |-> stats.food_eaten + (IF ate THEN 1 ELSE 0),
                   powerups_collected |-> stats.powerups_collected + collected,
                   max_length |-> Max(stats.max_length, Len(s3.body))]
    IN  /\ state' = state
        /\ UNCHANGED <<config, disk, submitted>>
        /\ snake' = s3
        /\ score' = score2
        /\ stats' = stats2
        /\ IF ate
           THEN \E pos \in FoodPositions(s2.body), ty \in FoodTypes :
                    food' = [position |-> pos, type |-> ty]
           ELSE food' = food
        /\ \/ powerups' = ps2
           \/ /\ Len(ps2) < MaxPowerUps
              /\ \E pos \in PowerUpPositions(s3.body), ty \in spawn_types :
                     powerups' = Append(ps2, [position |-> pos, type |-> ty,
                                              spawn_time |-> now])

\* the number of particles of a list of bursts
RECURSIVE ParticleCount(_)
ParticleCount(ps) ==
    IF ps = <<>> THEN 0 ELSE ps[1].n + ParticleCount(Tail(ps))

\* particles[-max_particles:] with excess the number of particles to drop:
\* the oldest go first
RECURSIVE ParticlesTail(_, _)
ParticlesTail(ps, excess) ==
    IF excess <= 0 \/ ps = <<>> THEN ps
    ELSE IF ps[1].n <= excess
         THEN ParticlesTail(Tail(ps), excess - ps[1].n)
         ELSE <<[ps[1] EXCEPT !.n = ps[1].n - excess]>> \o Tail(ps)

\* Game.update, the particles: those of Game.particles still alive after
\* Particle.update, the last max_particles of them
ParticlesKept(ps) ==
    LET aged == [i \in 1 .. Len(ps) |-> [ps[i] EXCEPT !.lifetime = ps[i].lifetime - 1]]
        alive == SelectSeq(aged, LAMBDA burst : burst.lifetime > 0)
    IN  ParticlesTail(alive, ParticleCount(alive) - MaxParticles)

\* the n particles that one call of create_food_particles or
\* create_powerup_particles appends, all of one lifetime
ParticleBurst(n, life) ==
    IF n = 0 THEN <<>> ELSE <<[n |-> n, lifetime |-> life, max_lifetime |-> life]>>

\* no particle has been through more than n updates
ParticlesYoung(n) ==
    \A i \in 1 .. Len(particles) :
        particles[i].max_lifetime - particles[i].lifetime <= n

\* Game.create_food_particles and Game.create_powerup_particles of one
\* update: none unless the game is played and the snake's step is not
\* fatal; then those of the food eaten and of each power-up collected
ParticlesCreated ==
    IF state # "playing" \/ snake.body = <<>>
    THEN <<>>
    ELSE LET s1 == SnakeUpdate(snake)
         IN  IF SnakeCheckSelfCollision(s1)
             THEN <<>>
             ELSE (IF HeadOf(s1) = food.position
                   THEN ParticleBurst(FoodParticles, FoodParticleLife)
                   ELSE <<>>)
                  \o ParticleBurst(
                        PowerUpParticles
                          * (Len(powerups) - Len(PowerUpsOffCell(powerups, HeadOf(s1)))),
                        PowerUpParticleLife)

\* Game.update_gameplay
UpdateGameplay(spawn_types) ==
    IF snake.body = <<>>
    THEN UNCHANGED evars
    ELSE LET s1 == SnakeUpdate(snake)
         IN  IF SnakeCheckSelfCollision(s1)
             THEN GameOverEffect(s1)
             ELSE ResolveTick(s1, spawn_types)

\* Game.update that runs the gameplay in every state that has a snake
UpdateAnyState(spawn_types) ==
    /\ ~legacy /\ running
    /\ UNCHANGED <<uvars, legacy, now, lvars>>
    /\ particles' = ParticlesKept(particles) \o ParticlesCreated
    /\ IF state \in {"playing", "paused"}
       THEN /\ frame' = frame + 1
            /\ cmds' = IF SnakeUpdate(snake).move_timer = 0 THEN <<>> ELSE cmds
            /\ UpdateGameplay(spawn_types)
       ELSE UNCHANGED <<frame, evars, cmds>>

\* Game.update, once per iteration of Game.run
Update(spawn_types) ==
    /\ ~legacy /\ running
    /\ UNCHANGED <<uvars, legacy, now, lvars>>
    /\ particles' = ParticlesKept(particles) \o ParticlesCreated
    /\ IF state = "playing"
       THEN /\ frame' = frame + 1
            /\ cmds' = IF SnakeUpdate(snake).move_timer = 0 THEN <<>> ELSE cmds
            /\ UpdateGameplay(spawn_types)
       ELSE UNCHANGED <<frame, evars, cmds>>

\* Game.handle_events in the menu, the select key on a start item:
\* Game.handle_menu_action("start_game:<mode>"); the state is no longer MENU
\* at the end of handle_events
MenuStart ==
    /\ ~legacy /\ running
    /\ state = "menu"
    /\ MenuSelectCurrentItem(menu).action.kind = "start_game"
    /\ current_mode' = MenuSelectCurrentItem(menu).action.mode
    /\ StartGameEffect
    /\ cmds' = <<>>
    /\ UNCHANGED <<music, menu, running, legacy, frame, now, lvars>>

\* the file after the save_config of a reset_config item, if act is one
FileAfter(act, file) ==
    IF act.kind = "reset_config"
    THEN {o.file : o \in SaveOutcomes(config, file)}
    ELSE {file}

\* Game.handle_events in the menu for a key that starts no game: the event
\* goes to UIManager.handle_event in the MENU branch and once more at the
\* end of handle_events, where the returned action is dropped
MenuKey(key) ==
    /\ ~legacy /\ running
    /\ state = "menu"
    /\ LET r1 == MenuHandleEvent(menu, key)
           r2 == MenuHandleEvent(r1.menu, key)
       IN  /\ r1.action.kind # "start_game"
           /\ menu' = r2.menu
           /\ running' = (running /\ r1.action.kind # "quit")
           /\ \E f1 \in FileAfter(r1.action, disk) :
                  disk' \in FileAfter(r2.action, f1)
    /\ UNCHANGED <<music, current_mode, particles, legacy, frame, now, state, snake, food,
                   powerups, score, stats, config, submitted, cmds, lvars>>

\* Game.handle_game_input with a direction key
KeyDirection(d) ==
    /\ ~legacy /\ running
    /\ state = "playing"
    /\ Len(cmds) < MaxCmds
    /\ snake' = SnakeChangeDirection(snake, d)
    /\ cmds' = Append(cmds, d)
    /\ UNCHANGED <<uvars, particles, legacy, frame, now, state, food, powerups, score, stats, config, disk, submitted, lvars>>

\* Game.handle_game_input with the pause key or the menu key: Game.pause_game
KeyPause ==
    /\ ~legacy /\ running
    /\ state = "playing"
    /\ state' = "paused"
    /\ music' = MusicPause(music)
    /\ UNCHANGED <<menu, running, current_mode, particles, legacy, frame, now, snake, food, powerups, score, stats, config, disk, submitted, cmds, lvars>>

\* Game.handle_events, PAUSED and K_SPACE: Game.resume_game
KeyResume ==
    /\ ~legacy /\ running
    /\ state = "paused"
    /\ state' = "playing"
    /\ music' = MusicResume(music)
    /\ UNCHANGED <<menu, running, current_mode, particles, legacy, frame, now, snake, food, powerups, score, stats, config, disk, submitted, cmds, lvars>>

\* Game.handle_events, PAUSED or GAME_OVER and K_ESCAPE: Game.return_to_menu;
\* the state is MENU at the end of handle_events, so the event goes to
\* UIManager.handle_event, where go_back on the main menu returns an action
\* that is dropped
KeyMenu ==
    /\ ~legacy /\ running
    /\ state \in {"paused", "game_over"}
    /\ state' = "menu"
    /\ menu' = MenuHandleEvent(MainMenu, "ESCAPE").menu
    /\ UNCHANGED <<music, running, current_mode, particles, legacy, frame, now, snake, food, powerups, score, stats, config, disk, submitted, cmds, lvars>>

\* a restart that only returns to the menu
RestartToMenu ==
    /\ ~legacy /\ running
    /\ state = "game_over"
    /\ state' = "menu"
    /\ UNCHANGED <<uvars, particles, legacy, frame, now, snake, food, powerups, score, stats, config, disk, submitted, cmds, lvars>>

\* Game.handle_events, GAME_OVER and K_r: Game.restart_game
KeyRestart ==
    /\ ~legacy /\ running
    /\ state = "game_over"
    /\ StartGameEffect
    /\ cmds' = <<>>
    /\ UNCHANGED <<uvars, legacy, frame, now, lvars>>

\* Game.handle_game_input with the skip-music key: AudioManager.skip_track
KeySkip ==
    /\ ~legacy /\ running
    /\ state = "playing"
    /\ music' = MusicPlayNext(music)
    /\ UNCHANGED <<menu, running, current_mode, particles, legacy, frame, now, evars, cmds, lvars>>

\* the keys of a KEYDOWN event: the direction keys, the pause key, the menu
\* key, the restart key, the menu's select key, the skip-music key
Keys == Directions \cup {"SPACE", "ESCAPE", "r", "RETURN", "m"}

\* the key is one the state's branch of Game.handle_events acts on
KeyHandled(key) ==
    \/ state = "menu" /\ key \in {"UP", "DOWN", "RETURN", "SPACE", "ESCAPE"}
    \/ state = "playing" /\ key \in Directions \cup {"SPACE", "ESCAPE", "m"}
    \/ state = "paused" /\ key \in {"SPACE", "ESCAPE"}
    \/ state = "game_over" /\ key \in {"r", "ESCAPE"}

\* Game.handle_events for one KEYDOWN event
KeyDown(key) ==
    \/ state = "menu" /\ key \in {"RETURN", "SPACE"} /\ MenuStart
    \/ state = "menu" /\ KeyHandled(key) /\ MenuKey(key)
    \/ state = "playing" /\ key = "m" /\ KeySkip
    \/ state = "playing" /\ key \in Directions /\ KeyDirection(key)
    \/ state = "playing" /\ key \in {"SPACE", "ESCAPE"} /\ KeyPause
    \/ state = "paused" /\ key = "SPACE" /\ KeyResume
    \/ state \in {"paused", "game_over"} /\ key = "ESCAPE" /\ KeyMenu
    \/ state = "game_over" /\ key = "r" /\ KeyRestart
    \/ ~legacy /\ running /\ ~KeyHandled(key) /\ UNCHANGED vars

\* time.time() moves on
TimePasses ==
    /\ \E dt \in ClockSteps : now + dt <= MaxNow /\ now' = now + dt
    /\ UNCHANGED <<uvars, particles, legacy, frame, evars, cmds, lvars>>

----------------------------------------------------------------------------
(* Legacy Snake (src/snakeium.py) *)

LegacyPowerUpTypes == {"speed", "score", "rainbow", "mega"}

PowerUpIsExpiredLegacy(p, t) == t - p.spawn_time > LegacyPowerUpLifetime

LegacySnakeInit(speed) ==
    [body |-> << <<GridW \div 2, GridH \div 2>> >>,
     direction |-> "RIGHT",
     grow |-> FALSE,
     speed |-> speed,
     rainbow_mode |-> FALSE,
     rainbow_timer |-> 0,
     speed_boost_timer |-> 0,
     score_multiplier |-> 1,
     score_multiplier_timer |-> 0,
     move_timer |-> 0,
     move_interval |-> Max(1, FramesPerSecond \div speed),
     is_moving |-> FALSE]

NoLegacySnake == [LegacySnakeInit(1) EXCEPT !.body = <<>>]

LegacyStartNewMove(s) ==
    LET delta == DirectionValue(s.direction)
        new_head == <<(s.body[1][1] + delta[1]) % GridW,
                      (s.body[1][2] + delta[2]) % GridH>>
        grown == <<new_head>> \o s.body
    IN  [s EXCEPT !.move_timer = 0,
                  !.is_moving = TRUE,
                  !.body = IF s.grow THEN grown
                           ELSE SubSeq(grown, 1, Len(grown) - 1),
                  !.grow = FALSE]

LegacyMove(s) ==
    LET s1 == [s EXCEPT !.move_timer = s.move_timer + 1]
        s2 == IF s1.is_moving /\ s1.move_timer >= s1.move_interval
              THEN [s1 EXCEPT !.is_moving = FALSE, !.move_timer = 0]
              ELSE s1
    IN  IF ~s2.is_moving /\ s2.move_timer >= s2.move_interval
        THEN LegacyStartNewMove(s2)
        ELSE s2

LegacyChangeDirection(s, new_direction) ==
    IF Len(s.body) > 1
    THEN IF ~IsReverse(s.direction, new_direction)
         THEN [s EXCEPT !.direction = new_direction]
         ELSE s
    ELSE [s EXCEPT !.direction = new_direction]

LegacyEatFood(s) == [s EXCEPT !.grow = TRUE]

LegacyEatPowerup(s, type) ==
    CASE type = "speed" -> [s EXCEPT !.speed_boost_timer = SpeedBoostTicks]
      [] type = "score" ->
            [s EXCEPT !.score_multiplier = ScoreMultiplierValue,
                      !.score_multiplier_timer = ScoreMultiplierTicks]
      [] type = "rainbow" ->
            [s EXCEPT !.rainbow_mode = TRUE, !.rainbow_timer = RainbowTicks]
      [] type = "mega" -> LegacyEatFood(LegacyEatFood(LegacyEatFood(s)))
      [] OTHER -> s

LegacyUpdateEffects(s) ==
    [s EXCEPT !.speed_boost_timer = Decay(s.speed_boost_timer),
              !.score_multiplier_timer = Decay(s.score_multiplier_timer),
              !.score_multiplier =
                  IF s.score_multiplier_timer > 0 THEN s.score_multiplier ELSE 1,
              !.rainbow_timer = Decay(s.rainbow_timer),
              !.rainbow_mode =
                  IF s.rainbow_timer > 0 THEN s.rainbow_mode ELSE FALSE]

\* max(60 // current_speed, 1); with the boost current_speed is
\* min(base_speed * 1.8, 20), and 60 // (1.8 * b) = 600 \div (18 * b)
LegacyUpdateMoveInterval(s) ==
    LET base_speed == s.speed + Len(s.body) \div LegacyLengthPerSpeed
        interval ==
            IF s.speed_boost_timer > 0
            THEN IF 18 * base_speed >= 10 * LegacySpeedCeiling
                 THEN FramesPerSecond \div LegacySpeedCeiling
                 ELSE (10 * FramesPerSecond) \div (18 * base_speed)
            ELSE FramesPerSecond \div base_speed
    IN  [s EXCEPT !.move_interval = Max(interval, 1)]

LegacyCheckCollision(s) == InBody(s.body[1], Tail(s.body))

----------------------------------------------------------------------------
(* Legacy Game *)

NoLegacyGame ==
    [game_state |-> "menu", game_over |-> FALSE, paused |-> FALSE,
     score |-> 0, food |-> <<>>, powerups |-> <<>>]

\* Game.check_powerup_collisions: Snake.eat_powerup for every power-up on
\* the head's cell, in list order
RECURSIVE LegacyEatPowerupsAt(_, _)
LegacyEatPowerupsAt(s, ps) ==
    IF ps = <<>> THEN s
    ELSE IF s.body[1] = ps[1].position
         THEN LegacyEatPowerupsAt(LegacyEatPowerup(s, ps[1].type), Tail(ps))
         ELSE LegacyEatPowerupsAt(s, Tail(ps))

LegacyPowerUpsAlive(ps, t) ==
    SelectSeq(ps, LAMBDA p : ~PowerUpIsExpiredLegacy(p, t))

\* Game.start_game from the start menu, with the selected option's speed
LegacyStart(speed) ==
    /\ legacy
    /\ lgame.game_state = "menu"
    /\ lsnake' = LegacySnakeInit(speed)
    /\ \E pos \in Cells :
           lgame' = [game_state |-> "playing", game_over |-> FALSE,
                     paused |-> FALSE, score |-> 0, food |-> pos,
                     powerups |-> <<>>]
    /\ UNCHANGED <<uvars, particles, legacy, frame, now, evars, cmds>>

\* Game.handle_events with a direction key
LegacyKeyDirection(d) ==
    /\ legacy
    /\ lgame.game_state = "playing"
    /\ ~lgame.game_over /\ ~lgame.paused /\ lsnake.body # <<>>
    /\ lsnake' = LegacyChangeDirection(lsnake, d)
    /\ UNCHANGED <<uvars, particles, legacy, frame, now, evars, cmds, lgame>>

\* Game.update of the legacy game; spawn_types as in ResolveTick, for
\* random.random() < 0.003
LegacyUpdate(spawn_types) ==
    /\ legacy
    /\ IF \/ lgame.game_state # "playing" \/ lsnake.body = <<>>
          \/ lgame.food = <<>> \/ lgame.game_over \/ lgame.paused
       THEN UNCHANGED <<frame, lvars>>
       ELSE LET s1 == LegacyMove(LegacyUpdateMoveInterval(
                                     LegacyUpdateEffects(lsnake)))
                dead == LegacyCheckCollision(s1)
                ate == ~dead /\ s1.body[1] = lgame.food
                s2 == IF ate THEN LegacyEatFood(s1) ELSE s1
                score2 == IF ate THEN lgame.score + 10 * s1.score_multiplier
                          ELSE lgame.score
                s3 == IF dead THEN s2 ELSE LegacyEatPowerupsAt(s2, lgame.powerups)
                ps1 == IF dead THEN lgame.powerups
                       ELSE PowerUpsOffCell(lgame.powerups, s2.body[1])
            IN  /\ frame' = frame + 1
                /\ lsnake' = s3
                /\ \E food2 \in IF ate THEN Cells ELSE {lgame.food} :
                   \E ps2 \in {ps1} \cup
                          IF ~dead /\ Len(ps1) < MaxPowerUps
                          THEN {Append(ps1, [position |-> pos, type |-> ty,
                                             spawn_time |-> now]) :
                                  pos \in {c \in Cells : ~InBody(c, s3.body)
                                                         /\ c # food2},
                                  ty \in spawn_types}
                          ELSE {} :
                       lgame' = [game_state |-> IF dead THEN "game_over"
                                                ELSE "playing",
                                 game_over |-> dead,
                                 paused |-> FALSE,
                                 score |-> score2,
                                 food |-> food2,
                                 powerups |-> LegacyPowerUpsAlive(ps2, now)]
    /\ UNCHANGED <<uvars, particles, legacy, now, evars, cmds>>

\* Game.__init__ of the legacy game
InitLegacy ==
    /\ legacy = TRUE
    /\ frame = 0
    /\ now = 0
    /\ state = "menu"
    /\ snake = NoSnake
    /\ food = NoFood
    /\ powerups = <<>>
    /\ score = 0
    /\ stats = NewStats
    /\ cmds = <<>>
    /\ lgame = NoLegacyGame
    /\ lsnake = NoLegacySnake
    /\ config = DefaultConfig
    /\ disk = NoFile
    /\ submitted = EmptyBag
    /\ music = MusicStarted
    /\ menu = MainMenu
    /\ running = TRUE
    /\ current_mode = "classic"
    /\ particles = <<>>

\* Game.__init__ with no configuration file yet, and the play_music of
\* Game.run with a music file found
InitEnhanced ==
    /\ legacy = FALSE
    /\ frame = 0
    /\ now = 0
    /\ state = "menu"
    /\ snake = NoSnake
    /\ food = NoFood
    /\ powerups = <<>>
    /\ score = 0
    /\ stats = NewStats
    /\ cmds = <<>>
    /\ lgame = NoLegacyGame
    /\ lsnake = NoLegacySnake
    /\ config = DefaultConfig
    /\ disk = NoFile
    /\ submitted = EmptyBag
    /\ music = MusicStarted
    /\ menu = MainMenu
    /\ running = TRUE
    /\ current_mode = "classic"
    /\ particles = <<>>

----------------------------------------------------------------------------
(* Spec: both games.  The enhanced game with every direction key at every *)
(* frame, normal food eaten up to MaxFoods times, no power-up spawn and    *)
(* MaxFrames updates; the legacy game at the NIGHTMARE speed with every    *)
(* direction key before every step, food eaten up to LegacyFoods times,    *)
(* MEGA_FOOD power-ups spawned during the first LegacySpawnFrames updates, *)
(* and LegacyFrames updates.                                               *)

BoundPlay ==
    /\ frame <= MaxFrames
    /\ stats.food_eaten <= MaxFoods
    /\ food.type = "normal"
    /\ powerups = <<>>

Tick == Update({}) /\ BoundPlay'

Start == MenuStart /\ BoundPlay'

Key(d) == frame < MaxFrames /\ KeyDirection(d)

BoundLegacy ==
    /\ frame <= LegacyFrames
    /\ lgame.score <= 10 * LegacyFoods
    /\ lgame.powerups # <<>> => frame <= LegacySpawnFrames

LegacyTick == LegacyUpdate({"mega"}) /\ BoundLegacy'

LegacyStartGame == \E speed \in LegacySpeeds : LegacyStart(speed)

\* a direction key in the frame before the legacy snake's next step
LegacyKey(d) ==
    /\ frame < LegacyFrames
    /\ ~lsnake.is_moving
    /\ lsnake.move_timer + 1 >= lsnake.move_interval
    /\ LegacyKeyDirection(d)

Next ==
    \/ Tick
    \/ Start
    \/ \E d \in Directions : Key(d)
    \/ LegacyTick
    \/ LegacyStartGame
    \/ \E d \in Directions : LegacyKey(d)

Init == InitEnhanced \/ InitLegacy

Spec == Init /\ [][Next]_vars

----------------------------------------------------------------------------
(* SpecShield: the runs that last past a shield's 600 ticks.  Power-ups of  *)
(* the kinds SHIELD and MEGA_FOOD spawn during the first SpawnFrames        *)
(* updates, the food is a normal one on (0, 0) and is not eaten, and        *)
(* direction keys are pressed only during the last KeyWindow ticks of the   *)
(* shield.                                                                  *)

ShieldKinds == {"shield", "mega"}

BoundShield ==
    /\ frame <= LongFrames
    /\ stats.food_eaten = 0
    /\ food = [position |-> <<0, 0>>, type |-> "normal"]
    /\ Len(powerups) + stats.powerups_collected <= MaxSpawns
    /\ powerups # <<>> => frame <= SpawnFrames

TickShield == Update(ShieldKinds) /\ BoundShield'

StartShield == MenuStart /\ BoundShield'

KeyLate(d) ==
    /\ snake.effects.shield \in 1 .. KeyWindow
    /\ KeyDirection(d)

NextShield ==
    \/ TickShield
    \/ StartShield
    \/ \E d \in Directions : KeyLate(d)

SpecShield == InitEnhanced /\ [][NextShield]_vars

----------------------------------------------------------------------------
(* SpecGrow: the snake runs straight on; food, on the snake's row, is       *)
(* eaten up to GrowFoods times and MEGA_FOOD power-ups spawn.               *)

BoundGrow ==
    /\ frame <= GrowFrames
    /\ stats.food_eaten <= GrowFoods
    /\ Len(powerups) + stats.powerups_collected <= GrowSpawns
    /\ state # "menu" => food.position[2] = GridH \div 2

TickGrow == Update({"mega"}) /\ BoundGrow'

StartGrow == MenuStart /\ BoundGrow'

NextGrow ==
    \/ TickGrow
    \/ StartGrow

SpecGrow == InitEnhanced /\ [][NextGrow]_vars

----------------------------------------------------------------------------
(* SpecTimers: the long run of SpecShield without keys, with SPEED_BOOST    *)
(* and SCORE_MULTIPLIER power-ups, to the end of their effects.             *)

TimerKinds == {"speed", "score"}

TickTimers == Update(TimerKinds) /\ BoundShield'

StartTimers == MenuStart /\ BoundShield'

NextTimers ==
    \/ TickTimers
    \/ StartTimers

SpecTimers == InitEnhanced /\ [][NextTimers]_vars

----------------------------------------------------------------------------
(* SpecSpeed: Snake.update as a function of the speed, the length and the   *)
(* speed_boost and slow_time effects.  A game is started at any             *)
(* default_speed of 1 .. MaxSpeed, or is found in the middle of a run with  *)
(* a straight snake of any length of 1 .. MaxLength (longer than the row    *)
(* under a shield), with or without each of the two effects; SpeedFrames    *)
(* updates follow.                                                          *)

\* a snake of the given length lying along its row behind the head
StraightBody(length) ==
    [i \in 1 .. length |-> <<(GridW \div 2 + (GridW - 1) * (i - 1)) % GridW,
                             GridH \div 2>>]

MidRunSnake(sp, length, boost, slow) ==
    LET s == [SnakeInit(sp) EXCEPT
                 !.body = StraightBody(length),
                 !.effects.speed_boost = boost,
                 !.effects.slow_time = slow,
                 !.effects.shield = IF length > GridW THEN ShieldTicks ELSE 0]
    IN  [s EXCEPT !.move_interval = SnakeMoveInterval(s)]

InitSpeed ==
    \/ InitEnhanced
    \/ /\ legacy = FALSE
       /\ frame = 0
       /\ now = 0
       /\ state = "playing"
       /\ \E sp \in 1 .. MaxSpeed, length \in 1 .. MaxLength,
             boost \in {0, SpeedBoostTicks}, slow \in {0, SlowTimeTicks} :
              /\ snake = MidRunSnake(sp, length, boost, slow)
              /\ stats = [NewStats EXCEPT !.max_length = length]
       /\ food = NoFood
       /\ powerups = <<>>
       /\ score = 0
       /\ cmds = <<>>
       /\ lgame = NoLegacyGame
       /\ lsnake = NoLegacySnake
       /\ config = DefaultConfig
       /\ disk = NoFile
       /\ submitted = EmptyBag
       /\ music = MusicStarted
       /\ menu = MainMenu
       /\ running = TRUE
       /\ current_mode = "classic"
       /\ particles = <<>>

BoundSpeed ==
    /\ frame <= SpeedFrames
    /\ food = NoFood

TickSpeed == Update({}) /\ BoundSpeed'

StartSpeed ==
    /\ ~legacy /\ running
    /\ state = "menu"
    /\ \E sp \in 1 .. MaxSpeed : StartGameWith(sp)
    /\ cmds' = <<>>
    /\ UNCHANGED <<uvars, legacy, frame, now, lvars>>
    /\ BoundSpeed'

NextSpeed ==
    \/ TickSpeed
    \/ StartSpeed

SpecSpeed == InitSpeed /\ [][NextSpeed]_vars

----------------------------------------------------------------------------
(* SpecStates: the state machine of the enhanced Game.  Every key in every  *)
(* state, but a direction key once per tick and only after the snake has   *)
(* eaten; mega food eaten up to StateFoods times in the last column, no     *)
(* power-up spawn, StateFrames updates in Playing and IdleFrames more for   *)
(* the particles; the menu takes keys before the first update only, later   *)
(* games are restarts.                                                      *)

BoundStates ==
    /\ frame <= StateFrames
    /\ stats.food_eaten <= StateFoods
    /\ state # "menu" => food.type = "mega" /\ food.position[1] = GridW - 1
    /\ ParticlesYoung(StateFrames + IdleFrames)

TickStates == Update({}) /\ BoundStates'

KeyStates(key) ==
    /\ (state # "menu" /\ key \in Directions) => cmds = <<>> /\ stats.food_eaten > 0
    /\ (state = "menu" /\ KeyHandled(key)) => frame = 0
    /\ KeyDown(key)
    /\ BoundStates'

NextStates ==
    \/ TickStates
    \/ \E key \in Keys : KeyStates(key)

SpecStates == InitEnhanced /\ [][NextStates]_vars

----------------------------------------------------------------------------
(* SpecRestart: games one after the other.  The snake runs straight on to  *)
(* a mega food in the last column, SPEED_BOOST and SCORE_MULTIPLIER        *)
(* power-ups spawn on the first column's cells (0, 0) and (0, GridH/2),     *)
(* and after the fatal                                                     *)
(* collision the game is restarted, or left for the menu and started       *)
(* there; RestartFrames updates in Playing and IdleFrames more for the     *)
(* particles.                                                              *)

RestartKinds == {"speed", "score"}

BoundRestart ==
    /\ frame <= RestartFrames
    /\ stats.food_eaten <= 1
    /\ state # "menu" => food.type = "mega" /\ food.position[1] = GridW - 1
    /\ Len(powerups) + stats.powerups_collected <= RestartSpawns
    /\ \A i \in 1 .. Len(powerups) :
           powerups[i].position \in {<<0, GridH \div 2>>, <<0, 0>>}
    /\ ParticlesYoung(RestartFrames + IdleFrames)

TickRestart == Update(RestartKinds) /\ BoundRestart'

KeyAfter(key) ==
    /\ state \in {"menu", "game_over"}
    /\ key \in {"r", "ESCAPE", "RETURN"}
    /\ state = "menu" /\ key = "ESCAPE" => frame = 0
    /\ KeyDown(key)
    /\ BoundRestart'

NextRestart ==
    \/ TickRestart
    \/ \E key \in Keys : KeyAfter(key)

SpecRestart == InitEnhanced /\ [][NextRestart]_vars

----------------------------------------------------------------------------
(* SpecExpiry: power-ups that grow old.  The clock moves on between the     *)
(* updates, SPEED_BOOST power-ups spawn on the last row, where the snake,   *)
(* which runs straight on, does not come; the food on (0, 0) is not eaten;  *)
(* ExpiryFrames updates.                                                    *)

BoundExpiry ==
    /\ frame <= ExpiryFrames
    /\ food = [position |-> <<0, 0>>, type |-> "normal"]
    /\ \A i \in 1 .. Len(powerups) : powerups[i].position[2] = GridH - 1

TickExpiry == Update({"speed"}) /\ BoundExpiry'

StartExpiry == MenuStart /\ BoundExpiry'

NextExpiry ==
    \/ TickExpiry
    \/ StartExpiry
    \/ TimePasses

SpecExpiry == InitEnhanced /\ [][NextExpiry]_vars

----------------------------------------------------------------------------
(* SpecScores: the high-score lists of a ConfigManager made with no file,   *)
(* under up to MaxSubmits calls of update_high_score with the scores        *)
(* 1 .. SubmitTop on two buckets.                                           *)

SubmitModes == {"classic", "survival"}

\* ConfigManager.update_high_score(mode, sc), called on Game.config
Submit(mode, sc) ==
    /\ ~legacy
    /\ config' = UpdateHighScore(config, mode, sc)
    /\ submitted' = submitted (+) SetToBag({<<mode, sc>>})
    /\ UNCHANGED <<uvars, particles, legacy, frame, now, state, snake, food,
                   powerups, score, stats, disk, cmds, lvars>>

SubmitSome(mode, sc) ==
    /\ BagCardinality(submitted) < MaxSubmits
    /\ Submit(mode, sc)

NextScores == \E mode \in SubmitModes, sc \in 1 .. SubmitTop : SubmitSome(mode, sc)

SpecScores == InitEnhanced /\ [][NextScores]_vars

----------------------------------------------------------------------------
(* SpecStore: the configuration file.  Up to StoreSubmits calls of          *)
(* update_high_score with the scores 1 .. StoreTop on two buckets, finished *)
(* games of a snake of StoreLengths, save_config with each of its outcomes, *)
(* and the start of the program anew: a ConfigManager made from the file.   *)

\* ConfigManager.update_statistics as Game.game_over calls it
Finish(longest_snake, power_ups_collected) ==
    /\ ~legacy
    /\ config' = UpdateStatistics(config, longest_snake, power_ups_collected)
    /\ UNCHANGED <<uvars, particles, legacy, frame, now, state, snake, food,
                   powerups, score, stats, disk, submitted, cmds, lvars>>

\* ConfigManager.save_config
SaveConfig ==
    /\ ~legacy
    /\ \E o \in SaveOutcomes(config, disk) : disk' = o.file
    /\ UNCHANGED <<uvars, particles, legacy, frame, now, state, snake, food,
                   powerups, score, stats, config, submitted, cmds, lvars>>

\* ConfigManager(config_path) anew, with the file as it is
Reload ==
    /\ ~legacy
    /\ config' = LoadConfig(disk)
    /\ UNCHANGED <<uvars, particles, legacy, frame, now, state, snake, food,
                   powerups, score, stats, disk, submitted, cmds, lvars>>

SubmitFew(mode, sc) ==
    /\ BagCardinality(submitted) < StoreSubmits
    /\ Submit(mode, sc)

FinishFew(longest_snake) ==
    /\ config.statistics.total_games < StoreGames
    /\ Finish(longest_snake, 0)

NextStore ==
    \/ \E mode \in SubmitModes, sc \in 1 .. StoreTop : SubmitFew(mode, sc)
    \/ \E n \in StoreLengths : FinishFew(n)
    \/ SaveConfig
    \/ Reload

SpecStore == InitEnhanced /\ [][NextStore]_vars

----------------------------------------------------------------------------
(* SpecScore: the snake runs straight on; food of every type is eaten up to *)
(* ScoreFoods times and SCORE_MULTIPLIER and DOUBLE_SCORE power-ups spawn;  *)
(* a food is drawn on the free cell of the snake's row that the head        *)
(* reaches last and a power-up on the cell the head enters next.            *)

ScoreKinds == {"score", "double_score"}

BoundScore ==
    /\ frame <= ScoreFrames
    /\ stats.food_eaten <= ScoreFoods
    /\ Len(powerups) + stats.powerups_collected <= ScoreSpawns
    /\ snake.body # <<>> =>
         \A i \in 1 .. Len(powerups) :
             powerups[i].position = SnakeMove(snake).body[1]

\* the cell k steps ahead of the head of a snake heading RIGHT
RowAhead(s, k) == <<(s.body[1][1] + k) % GridW, s.body[1][2]>>

\* a food created in this step lies on the farthest free cell ahead
FoodDrawnAhead ==
    LET free == {k \in 1 .. GridW - 1 : ~InBody(RowAhead(snake', k), snake'.body)}
    IN  (food' # food /\ free # {}) =>
            \E k \in free : /\ food'.position = RowAhead(snake', k)
                            /\ \A j \in free : j <= k

TickScore == Update(ScoreKinds) /\ BoundScore' /\ FoodDrawnAhead

StartScore == MenuStart /\ BoundScore' /\ FoodDrawnAhead

NextScore ==
    \/ TickScore
    \/ StartScore

SpecScore == InitEnhanced /\ [][NextScore]_vars

----------------------------------------------------------------------------
(* Properties of the enhanced game *)

\* one call of Game.update in the Playing state
PlayTick == ~legacy /\ state = "playing" /\ frame' = frame + 1

\* a call of Game.update in which the snake made a discrete step
Stepped == PlayTick /\ snake'.move_timer = 0

HeadOnBody(s) == Len(s.body) > 1 /\ InBody(s.body[1], Tail(s.body))

Distinct(body) ==
    \A i, j \in 1 .. Len(body) : i < j => body[i] # body[j]

\* C1 as stated: a tick that puts the head on another segment with no shield
\* ends the game in that tick and leaves score, grow_pending and the
\* power-ups as they were before the tick.
C1_AsStated ==
    [][(PlayTick /\ HeadOnBody(snake') /\ snake'.effects.shield = 0)
         => /\ state' = "game_over"
            /\ score' = score
            /\ snake'.grow_pending = snake.grow_pending
            /\ powerups' = powerups]_vars

\* C1: a tick that puts the head on another segment with no shield ends the
\* game in that tick, before food and power-ups are resolved: score, food,
\* power-ups and statistics are those from before the tick, and grow_pending
\* changes only by the step's own consumption of one pending segment.
C1_CollisionEndsTick ==
    [][(PlayTick /\ HeadOnBody(snake') /\ snake'.effects.shield = 0)
         => /\ state' = "game_over"
            /\ score' = score
            /\ food' = food
            /\ powerups' = powerups
            /\ stats' = stats
            /\ snake'.grow_pending =
                   IF Stepped /\ snake.grow_pending > 0
                   THEN snake.grow_pending - 1
                   ELSE snake.grow_pending]_vars

C1_Witness ==
    /\ state = "game_over"
    /\ HeadOnBody(snake)
    /\ snake.effects.shield = 0
    /\ snake.grow_pending > 0
    /\ powerups # <<>>

\* C2 as stated: in the Playing state with no shield the segments are
\* pairwise distinct.
C2_AsStated ==
    (~legacy /\ state = "playing" /\ snake.effects.shield = 0)
        => Distinct(snake.body)

\* C2: in the Playing state with no shield the head is on no other segment,
\* and no step taken without a shield makes two segments coincide; segments
\* behind the head that came to coincide under a shield stay as they are.
C2_HeadFree ==
    [][(~legacy /\ state' = "playing" /\ snake'.effects.shield = 0)
         => /\ ~HeadOnBody(snake')
            /\ Distinct(snake.body) => Distinct(snake'.body)]_vars

C2_Witness ==
    /\ state = "playing"
    /\ snake.effects.shield = 0
    /\ stats.powerups_collected > 0
    /\ ~HeadOnBody(snake)
    /\ ~Distinct(snake.body)

\* C3 as stated: with the shield above 0, a tick that puts the head on a
\* segment does not end the game, adds or removes no segment beyond the
\* step's own, and lowers the shield by exactly 1.
C3_AsStated ==
    [][(PlayTick /\ snake.effects.shield > 0 /\ HeadOnBody(snake'))
         => /\ state' = "playing"
            /\ Tail(snake'.body) =
                   SubSeq(snake.body, 1, Len(snake'.body) - 1)
            /\ Len(snake'.body) =
                   Len(snake.body) + (IF snake.grow_pending > 0 THEN 1 ELSE 0)
            /\ snake'.effects.shield = snake.effects.shield - 1]_vars

\* C3: with the shield above 1, so that it is still above 0 after the tick's
\* decay, a tick that puts the head on a segment does not end the game, the
\* body is the stepped body with nothing else added or removed, and the
\* shield goes down by exactly 1 unless a SHIELD power-up picked up in the
\* same tick sets it to its full duration.
C3_ShieldProtects ==
    [][(PlayTick /\ snake.effects.shield > 1 /\ HeadOnBody(snake'))
         => /\ state' = "playing"
            /\ Tail(snake'.body) =
                   SubSeq(snake.body, 1, Len(snake'.body) - 1)
            /\ Len(snake'.body) =
                   Len(snake.body) + (IF snake.grow_pending > 0 THEN 1 ELSE 0)
            /\ \/ snake'.effects.shield = snake.effects.shield - 1
               \/ /\ snake'.effects.shield = ShieldTicks
                  /\ \E i \in 1 .. Len(powerups) :
                         /\ powerups[i].type = "shield"
                         /\ powerups[i].position = snake'.body[1]]_vars

C3_Witness ==
    /\ state = "playing"
    /\ snake.effects.shield > 0
    /\ snake.effects.shield < ShieldTicks - 2
    /\ HeadOnBody(snake)

\* the cell next to pos in direction d, the far edge's neighbour being the
\* cell on the opposite edge
Wrapped(pos, d) ==
    LET x == pos[1] + DirectionValue(d)[1]
        y == pos[2] + DirectionValue(d)[2]
    IN  <<IF x = GridW THEN 0 ELSE IF x = -1 THEN GridW - 1 ELSE x,
          IF y = GridH THEN 0 ELSE IF y = -1 THEN GridH - 1 ELSE y>>

\* the growth amounts of the food types: normal 1, golden 2, mega 3
StatedGrowth(type) ==
    CASE type = "normal" -> 1
      [] type = "golden" -> 2
      [] type = "mega" -> 3

\* the growth that Game.eat_food adds in this tick
FoodGrowthOfTick ==
    IF stats'.food_eaten > stats.food_eaten THEN StatedGrowth(food.type) ELSE 0

\* the MEGA_FOOD power-ups that lie on the head's new cell
RECURSIVE MegaAt(_, _)
MegaAt(ps, pos) ==
    IF ps = <<>> THEN 0
    ELSE (IF ps[1].type = "mega" /\ ps[1].position = pos THEN 1 ELSE 0)
         + MegaAt(Tail(ps), pos)

\* the growth that Game.eat_powerup adds in this tick
PowerUpGrowthOfTick ==
    IF state' = "playing"
    THEN 5 * MegaAt(powerups, snake'.body[1])
    ELSE 0

\* C5: a discrete step of the enhanced snake puts one new head on the cell
\* next to the old head in the step's direction, wrapped at the edges, keeps
\* the other segments in order, and conserves len(body) + grow_pending: with
\* growth pending the length grows by 1 and the pending growth drops by 1
\* (before the tick's own pickups are added), otherwise the tail is removed.
C5_StepShape ==
    [][Stepped
         => /\ snake'.body[1] = Wrapped(snake.body[1], snake'.direction)
            /\ snake'.direction = snake.next_direction
            /\ IF snake.grow_pending > 0
               THEN /\ Tail(snake'.body) = snake.body
                    /\ snake'.grow_pending - FoodGrowthOfTick - PowerUpGrowthOfTick
                         = snake.grow_pending - 1
               ELSE /\ Tail(snake'.body) =
                           SubSeq(snake.body, 1, Len(snake.body) - 1)
                    /\ snake'.grow_pending - FoodGrowthOfTick - PowerUpGrowthOfTick
                         = 0]_vars

C5_Witness ==
    /\ state = "playing"
    /\ frame = 3
    /\ Len(snake.body) = 2
    /\ snake.grow_pending = 0
    /\ snake.body[1][1] = 0
    /\ snake.body[2][1] = GridW - 1

\* C6: whatever directions are commanded between two steps of an enhanced
\* snake of more than one segment, the later step's direction is not the
\* opposite of the earlier step's.
C6_NoReversal ==
    [][(Stepped /\ Len(snake.body) > 1)
         => ~IsReverse(snake.direction, snake'.direction)]_vars

C6_Witness ==
    /\ state = "playing"
    /\ Len(snake.body) > 1
    /\ snake.direction \in {"UP", "DOWN"}
    /\ snake.body[2][2] # snake.body[1][2]
    /\ cmds # <<>>
    /\ IsReverse(snake.direction, cmds[Len(cmds)])

C9_GrowthAccumulates ==
    [][PlayTick
         => /\ Len(snake'.body) + snake'.grow_pending
                 = Len(snake.body) + snake.grow_pending
                     + FoodGrowthOfTick + PowerUpGrowthOfTick
            /\ snake'.grow_pending >= 0]_vars

C9_Witness ==
    /\ state = "playing"
    /\ stats.food_eaten = 2
    /\ stats.powerups_collected = 1
    /\ snake.grow_pending >= 6

----------------------------------------------------------------------------
(* Properties of both games, and of the legacy game *)

\* one call of the legacy Game.update that runs the game logic
LegacyPlayTick == legacy /\ frame' = frame + 1

\* a call of the legacy Game.update in which Snake.start_new_move ran
LegacyStepped ==
    LegacyPlayTick /\ lsnake'.is_moving /\ lsnake'.move_timer = 0

InGrid(body) ==
    \A i \in 1 .. Len(body) :
        /\ 0 <= body[i][1] /\ body[i][1] < GridW
        /\ 0 <= body[i][2] /\ body[i][2] < GridH

\* C4: in both games every segment of the body stays inside the grid, and a
\* step puts the new head on the neighbouring cell in the step's direction,
\* which across an edge is the cell on the opposite edge.
C4_StaysInGrid ==
    [][/\ InGrid(snake'.body)
       /\ InGrid(lsnake'.body)
       /\ Stepped => snake'.body[1] = Wrapped(snake.body[1], snake'.direction)
       /\ LegacyStepped
            => lsnake'.body[1] = Wrapped(lsnake.body[1], lsnake.direction)]_vars

C4_Witness ==
    /\ legacy
    /\ lgame.game_state = "playing"
    /\ Len(lsnake.body) = 2
    /\ lsnake.direction = "UP"
    /\ lsnake.body[1][2] = GridH - 1
    /\ lsnake.body[2][2] = 0

\* the direction of the step that put the head where it is
LastStepDirection(body) ==
    CHOOSE d \in Directions : Wrapped(body[2], d) = body[1]

\* C7 as stated: whatever directions are commanded between two steps of a
\* legacy snake of more than one segment, the later step's direction is not
\* the opposite of the earlier step's.
C7_AsStated ==
    [][(LegacyStepped /\ Len(lsnake.body) > 1)
         => ~IsReverse(LastStepDirection(lsnake.body), lsnake.direction)]_vars

\* the growth the legacy snake still holds
LegacyPending(s) == IF s.grow THEN 1 ELSE 0

\* the calls of Snake.eat_food in this tick: one for the food, three for
\* each MEGA_FOOD power-up on the head's new cell
LegacyEatCallsOfTick ==
    (IF lgame'.score > lgame.score THEN 1 ELSE 0)
    + (IF lgame'.game_state = "playing"
       THEN 3 * MegaAt(lgame.powerups, lsnake'.body[1])
       ELSE 0)

\* C10 as stated: the calls of eat_food of the legacy snake accumulate: a
\* tick adds the number of its eat_food calls to the length plus the growth
\* the snake still holds, so that the length ends up larger by that number.
C10_AsStated ==
    [][LegacyPlayTick
         => Len(lsnake'.body) + LegacyPending(lsnake')
              = Len(lsnake.body) + LegacyPending(lsnake) + LegacyEatCallsOfTick]_vars

----------------------------------------------------------------------------
(* Scoring (enhanced) *)

\* the score values of the food types
StatedScore(type) ==
    CASE type = "normal" -> 10
      [] type = "golden" -> 50
      [] type = "mega" -> 100

\* the tick ate the food
AteFood == stats'.food_eaten = stats.food_eaten + 1

\* score_multiplier as the tick's timer update leaves it: the food is scored
\* after Snake.update and before the tick's power-ups are collected
MultiplierWhenScored ==
    IF snake.effects.score_multiplier_timer > 0
    THEN snake.effects.score_multiplier
    ELSE 1

\* the double_score timer is still above 0 after the tick's decrement
DoubleWhenScored == snake.effects.double_score - 1 > 0

\* C11: a tick in which the head reaches the food adds to the score the
\* food's value (10, 50 or 100) times score_multiplier, times 2 if the
\* double_score timer is above 0 (both as they are when the food is scored);
\* a tick adds nothing else to the score.
C11_FoodScore ==
    [][PlayTick
         => score' = score
              + (IF AteFood
                 THEN StatedScore(food.type) * MultiplierWhenScored
                        * (IF DoubleWhenScored THEN 2 ELSE 1)
                 ELSE 0)]_vars

\* two foods eaten, one of them of value 100 at 3 x 2: no other run of two
\* foods scores more than 600
C11_Witness ==
    /\ stats.food_eaten = 2
    /\ score > 600

----------------------------------------------------------------------------
(* Food placement (enhanced) *)

\* a Food is created: by start_game, or by eat_food after the food was eaten
FoodCreated ==
    \/ PlayTick /\ AteFood
    \/ ~legacy /\ state \in {"menu", "game_over"} /\ state' = "playing"

\* C12: when a Food is created while some cell of the grid is not in the
\* snake's body, its cell is not in the body, whatever the draws were.
C12_FoodOffSnake ==
    [][(FoodCreated /\ \E c \in Cells : ~InBody(c, snake'.body))
         => ~InBody(food'.position, snake'.body)]_vars

\* the food was eaten on (0, 0), the first cell of the scan, and the new food
\* lies elsewhere
C12_Witness ==
    /\ ~legacy /\ running
    /\ stats.food_eaten = 1
    /\ snake.body = <<<<0, 0>>>>
    /\ snake.grow_pending > 0
    /\ food.position # <<0, 0>>

----------------------------------------------------------------------------
(* Effect timers (enhanced) *)

\* the tick collects a power-up of the given type: one lies on the head's new
\* cell and the tick is not the one of a fatal collision
Collects(type) ==
    /\ state' = "playing"
    /\ \E i \in 1 .. Len(powerups) :
           /\ powerups[i].position = snake'.body[1]
           /\ powerups[i].type = type

\* the move interval of a snake of the given speed value
StatedInterval(speed_value, slowed) ==
    LET ticks == IF slowed THEN (2 * 60) \div speed_value ELSE 60 \div speed_value
    IN  IF ticks < 1 THEN 1 ELSE ticks

\* C13: the tick that collects a SPEED_BOOST leaves the speed_boost timer at
\* 300 whatever it was; every other tick takes one off the timer down to 0,
\* and computes the move interval from the doubled speed (at most 30) while
\* the timer it has just decremented is above 0 and from the plain speed once
\* it is 0: the boost is in use in the 299 ticks after the pickup and no
\* longer in the 300th.
C13_BoostLasts ==
    [][PlayTick
         => LET left == Max(0, snake.effects.speed_boost - 1)
                base == snake.speed + Len(snake.body) \div 10
                used == IF left > 0 THEN Min(2 * base, 30) ELSE base
            IN  /\ snake'.effects.speed_boost
                     = IF Collects("speed") THEN 300 ELSE left
                /\ snake'.move_interval
                     = StatedInterval(used, snake.effects.slow_time - 1 > 0)]_vars

\* the 299th tick after a SPEED_BOOST that was collected while an earlier one
\* was running: the interval is still the boosted one
C13_Witness ==
    /\ stats.powerups_collected = 2
    /\ snake.effects.score_multiplier = 1
    /\ snake.effects.speed_boost = 1
    /\ snake.move_interval = 2

\* the 300th tick after the pickup: timer 0 and the interval of the plain
\* speed
C13_WitnessOff ==
    /\ stats.powerups_collected = 2
    /\ snake.effects.score_multiplier = 1
    /\ snake.effects.speed_boost = 0
    /\ snake.move_interval = 1
    /\ frame > 300

\* C14 as stated: at the end of every tick the score multiplier is 3 only
\* while its timer is above 0, and is 1 whenever the timer is 0.
C14_AsStated ==
    ~legacy =>
        /\ snake.effects.score_multiplier = 3
             => snake.effects.score_multiplier_timer > 0
        /\ snake.effects.score_multiplier_timer = 0
             => snake.effects.score_multiplier = 1

----------------------------------------------------------------------------
(* Move interval (enhanced) *)

\* C15 as stated: the move interval of the enhanced snake is at least 1 in
\* every state, the state right after construction included, whatever the
\* initial speed (1 or more), the length and the effects.
C15_AsStated ==
    (~legacy /\ snake.body # <<>>) => snake.move_interval >= 1

\* C16 as stated: the move interval computed in a tick in which the speed
\* boost is active is not longer than the interval of the same speed and
\* length without the boost, and the boosted speed is at most 30.
C16_AsStated ==
    [][(PlayTick /\ snake.effects.speed_boost - 1 > 0)
         => LET base == snake.speed + Len(snake.body) \div 10
            IN  /\ snake'.move_interval
                     <= StatedInterval(base, snake.effects.slow_time - 1 > 0)
                /\ SnakeGetCurrentSpeed(snake') <= 30]_vars

----------------------------------------------------------------------------
(* Step spacing (legacy) *)

\* the calls of move() since the last step of a legacy snake that is still
\* in the movement the step began: start_new_move sets is_moving with
\* move_timer = 0 and every move() adds 1
MovesSinceStep == lsnake.move_timer

\* C17 as stated: with a constant move_interval N, the N-th call of move()
\* after a step of the legacy snake is the next step.
C17_AsStated ==
    [][(/\ LegacyPlayTick
        /\ lsnake.is_moving
        /\ MovesSinceStep + 1 = lsnake.move_interval
        /\ lsnake'.move_interval = lsnake.move_interval)
         => LegacyStepped]_vars

----------------------------------------------------------------------------
(* State machine (enhanced) *)

\* C18: while the game is paused, a step that is not the handling of the
\* resume key (SPACE) or of the return-to-menu key (ESCAPE), that is an
\* update or any other key, leaves the snake (body, direction,
\* next_direction, move_timer, grow_pending, effect timers), the score, the
\* food and the power-ups as they are, and the state stays Paused.
C18_PausedFrozen ==
    [][(/\ ~legacy
        /\ state = "paused"
        /\ ~KeyDown("SPACE")
        /\ ~KeyDown("ESCAPE"))
         => UNCHANGED <<state, snake, score, food, powerups>>]_vars

\* paused in the middle of a run, with a growing snake and a direction
\* command pending
C18_Witness ==
    /\ state = "paused"
    /\ frame > 0
    /\ snake.grow_pending > 0
    /\ cmds # <<>>

\* C19 as stated: the restart key in GameOver takes the state to Menu.
C19_AsStated ==
    [][(~legacy /\ state = "game_over" /\ KeyDown("r"))
         => state' = "menu"]_vars

\* C19: the restart key in GameOver starts a new game at once: the state is
\* Playing, with a new snake of one segment, a new food, no power-up, score
\* 0 and new statistics.
C19_RestartStartsGame ==
    [][(~legacy /\ state = "game_over" /\ KeyDown("r"))
         => /\ state' = "playing"
            /\ Len(snake'.body) = 1
            /\ snake'.effects = NoEffects
            /\ ~InBody(food'.position, snake'.body)
            /\ powerups' = <<>>
            /\ score' = 0
            /\ stats' = NewStats]_vars

\* a new game at an update at which the snake of the game started from the
\* menu, which runs straight on until it has eaten, is not on its start
\* cell: the game was begun by the restart key in GameOver
C19_Witness ==
    /\ state = "playing"
    /\ frame % GridW # 0
    /\ score = 0
    /\ stats = NewStats
    /\ snake = SnakeInit(snake.speed)

\* C20 as stated: the menu key (ESCAPE) takes the state from Playing to Menu
\* in one transition.
C20_AsStated ==
    [][(~legacy /\ state = "playing" /\ KeyDown("ESCAPE"))
         => state' = "menu"]_vars

\* no step at all leads from Playing to Menu
C20_NoDirectMenu ==
    [][(~legacy /\ state = "playing") => state' # "menu"]_vars

\* the number of update_high_score calls made so far with (mode, sc)
Submissions(mode, sc) == CopiesIn(<<mode, sc>>, submitted)

\* C21: a step that takes the enhanced game into GameOver calls
\* update_high_score once, with the final score and the active mode, leaves
\* that score in the mode's bucket and adds 1 to total_games; and a step on
\* which the state stays GameOver, an update or a key, calls it no more and
\* leaves the high scores and the statistics as they are.
C21_GameOverOnce ==
    [][/\ (~legacy /\ state # "game_over" /\ state' = "game_over")
          => /\ BagCardinality(submitted') = BagCardinality(submitted) + 1
             /\ Submissions(current_mode, score)' =
                    Submissions(current_mode, score) + 1
             /\ score' = score
             /\ \E i \in 1 .. Len(GetHighScores(config', current_mode)) :
                    GetHighScores(config', current_mode)[i] = score
             /\ config'.statistics.total_games =
                    config.statistics.total_games + 1
       /\ (~legacy /\ state = "game_over" /\ state' = "game_over")
          => UNCHANGED <<config, submitted>>]_vars

\* a finished game with a score above 0, after its one call
C21_Witness ==
    /\ state = "game_over"
    /\ score > 0
    /\ config.statistics.total_games = 1
    /\ BagCardinality(submitted) = 1
    /\ GetHighScores(config, current_mode) = <<score>>

\* a step that starts a game: from the menu, or the restart in GameOver
StartsGame == ~legacy /\ state \in {"menu", "game_over"} /\ state' = "playing"

\* C22: after every step that starts a game the state is Playing, the score
\* is 0, the snake is one segment on the centre of the grid facing RIGHT
\* with grow_pending 0, every effect timer is 0 and score_multiplier is 1,
\* and there is no power-up and no particle, whatever the game before left.
C22_FreshStart ==
    [][StartsGame
         => /\ state' = "playing"
            /\ score' = 0
            /\ snake'.body = << <<GridW \div 2, GridH \div 2>> >>
            /\ snake'.direction = "RIGHT"
            /\ snake'.next_direction = "RIGHT"
            /\ snake'.grow_pending = 0
            /\ snake'.effects.speed_boost = 0
            /\ snake'.effects.score_multiplier_timer = 0
            /\ snake'.effects.rainbow_mode = 0
            /\ snake'.effects.shield = 0
            /\ snake'.effects.slow_time = 0
            /\ snake'.effects.double_score = 0
            /\ snake'.effects.score_multiplier = 1
            /\ powerups' = <<>>
            /\ particles' = <<>>]_vars

\* a game just started after one that ended with a score, with a power-up
\* collected and a longer snake
C22_Witness ==
    /\ state = "playing"
    /\ snake = SnakeInit(snake.speed)
    /\ particles = <<>>
    /\ config.statistics.total_games = 1
    /\ config.statistics.highest_score > 0
    /\ config.statistics.power_ups_collected > 0
    /\ config.statistics.longest_snake > 1

\* the same after the menu: the game before was left for the menu in
\* GameOver with a power-up on the grid
C22_WitnessMenu ==
    /\ state = "menu"
    /\ config.statistics.total_games = 1
    /\ powerups # <<>>
    /\ particles # <<>>
    /\ snake.effects # NoEffects

\* the bucket of mode as it is stored
Bucket(mode) ==
    IF mode \in DOMAIN config.high_scores THEN config.high_scores[mode] ELSE <<>>

\* the number of places of list that hold v
Places(list, v) == Cardinality({i \in 1 .. Len(list) : list[i] = v})

\* the number of update_high_score calls made so far on the bucket of mode
SubmittedTo(mode) ==
    LET RECURSIVE Sum(_)
        Sum(S) == IF S = {} THEN 0
                  ELSE LET e == CHOOSE e \in S : TRUE
                       IN  (IF e[1] = mode THEN CopiesIn(e, submitted) ELSE 0)
                           + Sum(S \ {e})
    IN  Sum(BagToSet(submitted))

\* C23: after any calls of update_high_score, every bucket is in
\* non-increasing order, has at most 10 entries, namely min(10, number of
\* scores submitted to it), every entry is a score submitted to it, no more
\* often than it was submitted, and a submitted score is missing, or there
\* less often, only if the bucket is full and the score is not above the
\* bucket's last entry: the bucket is the 10 largest scores submitted to it.
C23_TopTen ==
    \A mode \in Modes :
        LET list == Bucket(mode)
        IN  /\ \A i \in 1 .. Len(list) - 1 : list[i] >= list[i + 1]
            /\ Len(list) <= HighScoreLimit
            /\ Len(list) = Min(HighScoreLimit, SubmittedTo(mode))
            /\ \A i \in 1 .. Len(list) : Submissions(mode, list[i]) > 0
            /\ \A e \in BagToSet(submitted) :
                   e[1] = mode
                     => /\ Places(list, e[2]) <= CopiesIn(e, submitted)
                        /\ Places(list, e[2]) < CopiesIn(e, submitted)
                             => /\ Len(list) = HighScoreLimit
                                /\ e[2] <= list[HighScoreLimit]

\* a full bucket that has lost a low score, beside a bucket that is not full
C23_Witness ==
    /\ Len(Bucket("classic")) = HighScoreLimit
    /\ SubmittedTo("classic") > HighScoreLimit
    /\ Submissions("classic", 1) > 0
    /\ Places(Bucket("classic"), 1) = 0
    /\ Bucket("classic")[1] > Bucket("classic")[HighScoreLimit]
    /\ Len(Bucket("survival")) = 1

C24_WitnessReloaded ==
    /\ disk.exists /\ disk.whole
    /\ disk.text = JsonDump(config)
    /\ Len(Bucket("classic")) = 2
    /\ Bucket("classic")[1] > Bucket("classic")[2]
    /\ SubmittedTo("classic") = 3

\* the file does not hold the configuration: the last save_config failed
SaveFailed == ~(disk.exists /\ disk.whole /\ disk.text = JsonDump(config))

\* a step that ends a game
GameEnds == ~legacy /\ state = "playing" /\ state' = "game_over"

\* C25: when the save_config of the step that ends a game fails, it has
\* returned False, the state is GameOver all the same and the program is
\* still running, the final score is in the high-score list of the mode
\* and total_games has grown by 1 in memory; and in GameOver with the file
\* not written the restart key starts a game and the menu key leads to the
\* menu.
C25_WriteFailureHarmless ==
    [][/\ (GameEnds /\ SaveFailed')
          => /\ \E o \in SaveOutcomes(config', disk) :
                    o.file = disk' /\ o.result = FALSE
             /\ state' = "game_over"
             /\ running'
             /\ \E i \in 1 .. Len(GetHighScores(config', current_mode)) :
                    GetHighScores(config', current_mode)[i] = score
             /\ config'.statistics.total_games =
                    config.statistics.total_games + 1
       /\ (~legacy /\ state = "game_over" /\ SaveFailed)
          => /\ ENABLED KeyRestart
             /\ ENABLED KeyMenu
             /\ KeyDown("r") => state' = "playing"
             /\ KeyDown("ESCAPE") => state' = "menu"]_vars

\* a game restarted after one whose save_config could not open the file
C25_Witness ==
    /\ state = "playing"
    /\ config.statistics.total_games = 1
    /\ config.statistics.highest_score > 0
    /\ ~disk.exists

\* the menu after a game whose save_config failed while writing
C25_WitnessMenu ==
    /\ state = "menu"
    /\ config.statistics.total_games = 1
    /\ disk.exists /\ ~disk.whole

\* the power-ups that the collection and the expiry of this update leave
PowerUpsKept == PowerUpsAlive(PowerUpsOffCell(powerups, snake'.body[1]), now)

\* an update in which Game.spawn_powerup has appended a power-up
Spawned ==
    /\ PlayTick
    /\ state' = "playing"
    /\ powerups' # PowerUpsKept

\* C26 as stated: the cell of a power-up that is spawned is not a cell of
\* the snake, not the cell of the food and not the cell of another power-up
\* on the grid.
C26_AsStated ==
    [][Spawned
         => LET new == powerups'[Len(powerups')]
            IN  /\ ~InBody(new.position, snake'.body)
                /\ new.position # food'.position
                /\ \A i \in 1 .. Len(powerups') - 1 :
                       powerups'[i].position # new.position]_vars

\* what the code does see to: a spawned power-up is off the snake, or on
\* (0, 0), the cell it is given when every draw has hit the snake
C26_OffSnakeOrOrigin ==
    [][Spawned
         => LET new == powerups'[Len(powerups')]
            IN  ~InBody(new.position, snake'.body) \/ new.position = <<0, 0>>]_vars

\* the power-ups on the grid when the removal pass of this update begins
BeforeExpiry == PowerUpsOffCell(powerups, snake'.body[1])

\* the power-ups the removal pass of this update leaves: those of the next
\* state but the one spawn_powerup may have appended
AfterExpiry == SubSeq(powerups', 1, Min(Len(powerups'), Len(BeforeExpiry)
                   - Cardinality({i \in 1 .. Len(BeforeExpiry) :
                         now - BeforeExpiry[i].spawn_time > PowerUpLifetime})))

\* list is sub with some elements left out, the order kept
RECURSIVE IsSubSeq(_, _)
IsSubSeq(sub, list) ==
    IF sub = <<>> THEN TRUE
    ELSE IF list = <<>> THEN FALSE
         ELSE IF sub[1] = list[1] THEN IsSubSeq(Tail(sub), Tail(list))
              ELSE IsSubSeq(sub, Tail(list))

\* C27: at an update that goes on with the game, the removal pass leaves
\* the power-ups that are not expired, in their order, and none with
\* now - spawn_time > lifetime: it removes exactly the expired ones; and a
\* second pass at the same time removes nothing from what the first left.
C27_ExpiryExact ==
    [][(PlayTick /\ state' = "playing")
         => /\ Len(powerups') \in {Len(AfterExpiry), Len(AfterExpiry) + 1}
            /\ IsSubSeq(AfterExpiry, BeforeExpiry)
            /\ \A i \in 1 .. Len(AfterExpiry) :
                   now - AfterExpiry[i].spawn_time <= PowerUpLifetime
            /\ Len(AfterExpiry) =
                   Cardinality({i \in 1 .. Len(BeforeExpiry) :
                       now - BeforeExpiry[i].spawn_time <= PowerUpLifetime})
            /\ PowerUpsAlive(AfterExpiry, now) = AfterExpiry]_vars

\* between two updates of a game, after earlier removal passes: a power-up
\* older than the lifetime, which the next pass removes, before one exactly
\* as old as the lifetime, which it leaves
C27_Witness ==
    /\ state = "playing"
    /\ frame > 0 /\ frame < ExpiryFrames
    /\ Len(powerups) = 2
    /\ now - powerups[1].spawn_time > PowerUpLifetime
    /\ now - powerups[2].spawn_time = PowerUpLifetime

\* the number of items of the menu shown
MenuLength == Len(MenuItems[menu.current_menu])

\* C28 as stated: in the menu one UP or DOWN press moves selected_index by
\* 1 modulo the number of items of the menu shown, and one ENTER press does
\* what select_current_item does for the item highlighted at the press, and
\* no more.
C28_AsStated ==
    [][/\ (~legacy /\ state = "menu" /\ KeyDown("DOWN"))
          => /\ menu'.current_menu = menu.current_menu
             /\ menu'.selected_index = (menu.selected_index + 1) % MenuLength
       /\ (~legacy /\ state = "menu" /\ KeyDown("UP"))
          => /\ menu'.current_menu = menu.current_menu
             /\ menu'.selected_index =
                    (menu.selected_index + MenuLength - 1) % MenuLength
       /\ (~legacy /\ state = "menu" /\ KeyDown("RETURN"))
          => menu' = MenuSelectCurrentItem(menu).menu]_vars

\* what happens instead: every key press in the menu is handled twice, so
\* that in the main menu only Start Game, High Scores and About are ever
\* highlighted, and no other menu is shown when the key has been handled
C28_EveryOtherItem ==
    (~legacy /\ state = "menu")
      => /\ menu.current_menu = "main"
         /\ menu.selected_index \in {0, 2, 4}

\* the main menu with About highlighted, after DOWN pressed twice or UP once
C28_AboutHighlighted ==
    /\ state = "menu"
    /\ menu = [current_menu |-> "main", selected_index |-> 4]

\* C29 as stated: whenever the enhanced game is in the Playing state and
\* music has been started, the music manager is playing (is_playing is
\* true), also after pause, return to menu and start game.
C29_AsStated ==
    (~legacy /\ state = "playing" /\ music.current_song) => music.is_playing

\* what resumes the music: in Playing it is silent only in a game started
\* from the menu, and the resume key in Paused sets is_playing
C29_ResumeOnly ==
    [][/\ (~legacy /\ state = "paused" /\ KeyDown("SPACE")) => music'.is_playing
       /\ (~legacy /\ state = "playing" /\ state' = "playing")
          => (music.is_playing => music'.is_playing)]_vars

\* C30 as stated: when a game ends, statistics['longest_snake'] becomes the
\* larger of what it was and the max_length of the game that ends, so that
\* after any finished games it is the largest length reached in one game
\* and not the sum.
C30_AsStated ==
    [][GameEnds
         => config'.statistics.longest_snake =
                Max(config.statistics.longest_snake, stats.max_length)]_vars

\* what the code does: the lengths of the finished games are added up
C30_SumOfLengths ==
    [][GameEnds
         => config'.statistics.longest_snake =
                config.statistics.longest_snake + stats.max_length]_vars

====
